---- MODULE Spec2Model ----
(***************************************************************************)
(* A model of the Screen-Reader: the mode stack (modalitystack.ts), the    *)
(* speech proxy (speechsynth.ts) in front of window.speechSynthesis, the   *)
(* keybind registry (keybinds.ts) and the keystroke handlers of the main   *)
(* script (unnamed/part_000) acting on the page's element list.            *)
(*                                                                         *)
(* Every function of the source is an operator from a session record to a  *)
(* session record, so that a handler's statements compose in program       *)
(* order; an action commits the record a whole handler leaves behind.      *)
(***************************************************************************)
EXTENDS Integers, Sequences, FiniteSets, TLC

VARIABLES
    stack,        \* ModalityStack.stack
    speechRate,   \* SpeechSynth.speechRate, in millionths
    isPause,      \* SpeechSynth.isPause
    voiceQueue,   \* window.speechSynthesis: the utterances queued or in flight
    voicePaused,  \* window.speechSynthesis.paused
    keybinds,     \* the script's keybinds: Keybinds.keybinds, mode -> bindings
    doc,          \* which page is loaded (an index into Docs)
    elements,     \* document.getElementsByTagName("*"), in document order
    marked,       \* the elements carrying the class __current_sr_elt
    active,       \* document.activeElement
    op,           \* the last call or event
    key,          \* the key of the last keydown event
    ret,          \* what the last ModalityStack or Keybinds call returned
    said,         \* the text of the last speak() since the last keydown began
    prevented,    \* whether the last keydown had preventDefault() called
    thrown,       \* whether the last handler ended in an uncaught TypeError
    cancelled,    \* the text of the utterance cancel() removed in the last step, if any
    asked,        \* the calls the last step made on the voice engine, in order
    invoked,      \* the keybind callbacks the last step invoked, in order
    args,         \* harness: the arguments of the last call on a Keybinds
    registered,   \* the last registerKeybind call made for every (mode, key)
    incCalls,     \* harness: increaseVoiceRate calls made while no other rate call was
    rateCalls     \* how many rate calls / rate keystrokes were made (bounded)

vars == <<stack, speechRate, isPause, voiceQueue, voicePaused, keybinds, doc,
          elements, marked, active, op, key, ret, said, prevented, thrown,
          cancelled, asked, invoked, args, registered, incCalls, rateCalls>>

----------------------------------------------------------------------------
(* Bounds of the model.                                                    *)

\* the deepest stack the ModalityStack harness builds
MaxStack == 4
\* rate calls the SpeechSynth rate harness makes after its run of increases
MaxRateCalls == 2
\* rate keystrokes (ArrowLeft / ArrowRight in NORMAL mode) a session handles
MaxRateKeys == 1

----------------------------------------------------------------------------
(* readermodality.ts                                                       *)

NORMAL == 0
EDIT == 1
TABLE == 2
PAUSED == 3

ReaderModality == {NORMAL, EDIT, TABLE, PAUSED}

\* the enum's reverse mapping, ReaderModality[mode]
ModeName(mode) == <<"NORMAL", "EDIT", "TABLE", "PAUSED">>[mode + 1]

----------------------------------------------------------------------------
(* Texts. A text is a message, the element whose innerText it quotes (0    *)
(* for none) and, for the help text, the enumeration it carries.           *)

Text(msg, node, list) == [msg |-> msg, node |-> node, list |-> list]

NoText == Text("", 0, <<>>)

Cur ==
    [stack |-> stack, speechRate |-> speechRate, isPause |-> isPause,
     voiceQueue |-> voiceQueue, voicePaused |-> voicePaused,
     keybinds |-> keybinds, doc |-> doc, elements |-> elements,
     marked |-> marked, active |-> active, op |-> op,
     key |-> key, ret |-> ret, said |-> said, prevented |-> prevented,
     thrown |-> thrown, cancelled |-> cancelled, asked |-> asked,
     invoked |-> invoked, args |-> args, registered |-> registered,
     incCalls |-> incCalls, rateCalls |-> rateCalls]

\* the state a call or event starts from: what the last one did to the
\* engine is forgotten
Begin ==
    [Cur EXCEPT !.cancelled = NoText, !.asked = <<>>, !.invoked = <<>>,
                !.args = <<>>]

Commit(s) ==
    /\ stack' = s.stack
    /\ speechRate' = s.speechRate
    /\ isPause' = s.isPause
    /\ voiceQueue' = s.voiceQueue
    /\ voicePaused' = s.voicePaused
    /\ keybinds' = s.keybinds
    /\ doc' = s.doc
    /\ elements' = s.elements
    /\ marked' = s.marked
    /\ active' = s.active
    /\ op' = s.op
    /\ key' = s.key
    /\ ret' = s.ret
    /\ said' = s.said
    /\ prevented' = s.prevented
    /\ thrown' = s.thrown
    /\ cancelled' = s.cancelled
    /\ asked' = s.asked
    /\ invoked' = s.invoked
    /\ args' = s.args
    /\ registered' = s.registered
    /\ incCalls' = s.incCalls
    /\ rateCalls' = s.rateCalls

----------------------------------------------------------------------------
(* modalitystack.ts                                                        *)

\* constructor: the base state is NORMAL, and on top of that is PAUSED
ModalityStack_new == <<NORMAL, PAUSED>>

\* a popMode that forgets the length-1 guard
ModalityStack_popMode_unguarded(s) ==
    [s EXCEPT !.ret = s.stack[Len(s.stack)],
              !.stack = SubSeq(s.stack, 1, Len(s.stack) - 1)]

ModalityStack_popMode(s) ==
    IF Len(s.stack) = 1
    THEN [s EXCEPT !.ret = s.stack[1]]
    ELSE [s EXCEPT !.ret = s.stack[Len(s.stack)],
                   !.stack = SubSeq(s.stack, 1, Len(s.stack) - 1)]

ModalityStack_pushMode(s, mode) ==
    [s EXCEPT !.stack = Append(s.stack, mode)]

ModalityStack_mode(s) == s.stack[Len(s.stack)]

----------------------------------------------------------------------------
(* window.speechSynthesis, as speechsynth.ts uses it. The engine keeps a   *)
(* queue of utterances, the head being the one in flight, and a paused     *)
(* state that cancel() and speak() leave alone.                            *)

Utterance(text, rate) == [text |-> text, rate |-> rate]

voiceSynth_cancel(s) ==
    [s EXCEPT !.voiceQueue = <<>>,
              !.asked = Append(@, "cancel"),
              !.cancelled = IF s.voiceQueue = <<>> THEN @
                            ELSE s.voiceQueue[1].text]

voiceSynth_pause(s) ==
    [s EXCEPT !.voicePaused = TRUE, !.asked = Append(@, "pause")]

voiceSynth_resume(s) ==
    [s EXCEPT !.voicePaused = FALSE, !.asked = Append(@, "resume")]

voiceSynth_speak(s, utterance) ==
    [s EXCEPT !.voiceQueue = Append(s.voiceQueue, utterance),
              !.asked = Append(@, "speak")]

\* voiceSynth.speaking: an utterance is in flight, paused or not
voiceSynth_speaking(s) == s.voiceQueue # <<>>

----------------------------------------------------------------------------
(* speechsynth.ts. The rate is a JavaScript number: it is kept in          *)
(* millionths, with NaN apart; a factor is a pair <<numerator,             *)
(* denominator>>, <<1, 0>> and <<-1, 0>> being the infinities and <<0, 0>>  *)
(* being NaN.                                                              *)

RateUnit == 1000 * 1000

RateMax == 4 * RateUnit

RateMin == RateUnit \div 4

\* the speechRate that is not a number
NaN == -1

\* this.speechRate *= factor, then the two comparisons: both are false of
\* NaN, which stays; an infinite product is clamped like any other
changeVoiceRate(s, factor) ==
    IF s.speechRate = NaN \/ factor = << 0, 0 >>
    THEN [s EXCEPT !.speechRate = NaN]
    ELSE IF factor[2] = 0
    THEN [s EXCEPT !.speechRate = IF factor[1] > 0 THEN RateMax ELSE RateMin]
    ELSE LET r == (s.speechRate * factor[1]) \div factor[2]
         IN  [s EXCEPT !.speechRate = IF r > RateMax THEN RateMax
                                      ELSE IF r < RateMin THEN RateMin
                                      ELSE r]

increaseVoiceRate(s) == changeVoiceRate(s, <<11, 10>>)

decreaseVoiceRate(s) == changeVoiceRate(s, <<9, 10>>)

stop(s) == voiceSynth_cancel(s)

\* a pause that asks the engine whatever isPause says
pause_unguarded(s) == [voiceSynth_pause(s) EXCEPT !.isPause = TRUE]

pause(s) ==
    IF ~s.isPause
    THEN [voiceSynth_pause(s) EXCEPT !.isPause = TRUE]
    ELSE s

resume(s) ==
    IF s.isPause
    THEN [voiceSynth_resume(s) EXCEPT !.isPause = FALSE]
    ELSE s

stopNGo(s) ==
    LET s1 == IF s.isPause THEN resume(s) ELSE pause(s)
    IN  [s1 EXCEPT !.isPause = ~s1.isPause]

\* a speak that does not stop the utterance in flight first
speak_noStop(s, text) ==
    [voiceSynth_speak(s, Utterance(text, s.speechRate)) EXCEPT !.said = text]

\* utterance.rate is a float attribute: assigning NaN to it throws a
\* TypeError, after stop() and before voiceSynth.speak()
speak(s, text) ==
    LET s1 == stop(s)
        utterance == Utterance(text, s1.speechRate)
    IN  IF s1.speechRate = NaN
        THEN [s1 EXCEPT !.thrown = TRUE]
        ELSE [voiceSynth_speak(s1, utterance) EXCEPT !.said = text]

\* the private constructor, reached once through getSynth()
SpeechSynth_new(s) ==
    [voiceSynth_cancel(s) EXCEPT !.speechRate = RateUnit, !.isPause = FALSE]

----------------------------------------------------------------------------
(* keybinds.ts. The registry maps a mode to its bindings in the order      *)
(* Object.entries yields them: the order of first registration.            *)

Bind(keyName, description, callback) ==
    [key |-> keyName, description |-> description, callback |-> callback]

\* constructor: an empty set of bindings for every mode
Keybinds_new == [mode \in ReaderModality |-> <<>>]

\* the position of keyName among binds, 0 if it has none
bindIndex(binds, keyName) ==
    IF \E i \in 1..Len(binds) : binds[i].key = keyName
    THEN CHOOSE i \in 1..Len(binds) : binds[i].key = keyName
    ELSE 0

\* a registration that adds an entry even when the pair has one
registerKeybind_appends(kb, forMode, keyName, description, callback) ==
    [kb EXCEPT ![forMode] = Append(@, Bind(keyName, description, callback))]

\* a registration that keeps the binding a pair already has
registerKeybind_keepsFirst(kb, forMode, keyName, description, callback) ==
    IF bindIndex(kb[forMode], keyName) = 0
    THEN [kb EXCEPT ![forMode] = Append(@, Bind(keyName, description, callback))]
    ELSE kb

registerKeybind(kb, forMode, keyName, description, callback) ==
    LET i == bindIndex(kb[forMode], keyName)
        b == Bind(keyName, description, callback)
    IN  IF i = 0
        THEN [kb EXCEPT ![forMode] = Append(@, b)]
        ELSE [kb EXCEPT ![forMode][i] = b]

enunciateKey(keyName) ==
    CASE keyName = "a" -> "A."
      [] keyName = "ArrowRight" -> "the right arrow"
      [] keyName = "ArrowLeft" -> "the left arrow"
      [] keyName = "ArrowUp" -> "the up arrow"
      [] keyName = "ArrowDown" -> "the down arrow"
      [] keyName = " " -> "space"
      [] keyName = "F1" -> "F 1"
      [] OTHER -> keyName

\* " Press <key> to <description>. " for every binding of the mode, in order
getHelpString(kb, mode) ==
    [i \in 1..Len(kb[mode]) |->
        <<"Press", enunciateKey(kb[mode][i].key), "to", kb[mode][i].description>>]

getAllKeybinds(kb, mode) == kb[mode]

----------------------------------------------------------------------------
(* The registrations window.onload makes, in its order.                    *)

registerEditKeybinds(kb) ==
    registerKeybind(kb, EDIT, "Escape", "Exit edit mode", "editEscape")

registerPausedKeybinds(kb) ==
    registerKeybind(kb, PAUSED, "p", "Unpause", "pausedUnpause")

registerNormalKeybinds(kb) ==
    LET k1 == registerKeybind(kb, NORMAL, "p", "Pause", "normalPause")
        k2 == registerKeybind(k1, NORMAL, "ArrowDown", "Read the next element",
                              "normalRead")
        k3 == registerKeybind(k2, NORMAL, "ArrowUp",
                              "Go back to the previous element", "normalArrowUp")
        k4 == registerKeybind(k3, NORMAL, "ArrowLeft", "Slow down",
                              "normalArrowLeft")
        k5 == registerKeybind(k4, NORMAL, "ArrowRight", "Speed up",
                              "normalArrowRight")
        k6 == registerKeybind(k5, NORMAL, "t", "Enter table mode", "normalT")
    IN  registerKeybind(k6, NORMAL, " ", "Click the hovered element",
                        "normalSpace")

registerTableKeybinds(kb) ==
    LET k1 == registerKeybind(kb, TABLE, "p", "Pause", "tablePause")
        k2 == registerKeybind(k1, TABLE, "ArrowRight", "Move right",
                              "tableArrowRight")
        k3 == registerKeybind(k2, TABLE, "ArrowLeft", "Move left",
                              "tableArrowLeft")
        k4 == registerKeybind(k3, TABLE, "ArrowDown", "Move down",
                              "tableArrowDown")
        k5 == registerKeybind(k4, TABLE, "ArrowUp", "Move up", "tableArrowUp")
    IN  registerKeybind(k5, TABLE, "q", "Exit the table", "tableQ")

\* the registerKeybind calls that built kb, the last one for every pair
Registrations(kb) ==
    {[mode |-> m, key |-> kb[m][i].key, description |-> kb[m][i].description,
      callback |-> kb[m][i].callback] :
        <<m, i>> \in {<<m, i>> \in ReaderModality \X (1..20) : i <= Len(kb[m])}}

\* the registrations of window.onload, in its order
registerAll ==
    registerTableKeybinds(
        registerNormalKeybinds(
            registerEditKeybinds(
                registerPausedKeybinds(Keybinds_new))))

----------------------------------------------------------------------------
(* The pages. A page is whether its head holds a <title>, and the elements *)
(* of its body in document order, each with its tag, its parent (an index  *)
(* into the same list, 0 for <body>) and whether it takes input focus.     *)

Elt(tag, parent, foc) == [tag |-> tag, parent |-> parent, foc |-> foc]

Docs ==
    << \* 1: a title, a header and a paragraph
       [title |-> TRUE,
        body |-> << Elt("h1", 0, FALSE), Elt("p", 0, FALSE) >>],
       \* 2: a captioned ragged table (1 cell over 3 cells) between text
       [title |-> FALSE,
        body |-> << Elt("h2", 0, FALSE), Elt("div", 0, FALSE), Elt("p", 2, FALSE),
                    Elt("table", 0, FALSE), Elt("caption", 4, FALSE),
                    Elt("tbody", 4, FALSE),
                    Elt("tr", 6, FALSE), Elt("th", 7, FALSE),
                    Elt("tr", 6, FALSE), Elt("td", 9, FALSE), Elt("td", 9, FALSE),
                    Elt("td", 9, FALSE),
                    Elt("p", 0, FALSE) >>],
       \* 3: a table without rows, then a paragraph
       [title |-> FALSE,
        body |-> << Elt("table", 0, FALSE), Elt("p", 0, FALSE) >>],
       \* 4: a table whose first row has no cell, then a link
       [title |-> FALSE,
        body |-> << Elt("table", 0, FALSE), Elt("tr", 1, FALSE),
                    Elt("tr", 1, FALSE), Elt("td", 3, FALSE),
                    Elt("a", 0, TRUE) >>],
       \* 5: a table with a focusable first cell and an empty middle row,
       \*    then an element that is not narrated
       [title |-> TRUE,
        body |-> << Elt("table", 0, FALSE),
                    Elt("tr", 1, FALSE), Elt("td", 2, TRUE), Elt("td", 2, FALSE),
                    Elt("tr", 1, FALSE),
                    Elt("tr", 1, FALSE), Elt("th", 6, FALSE),
                    Elt("div", 0, FALSE) >>],
       \* 6: a button, an image, and a trailing element that is not narrated
       [title |-> FALSE,
        body |-> << Elt("button", 0, TRUE), Elt("img", 0, FALSE),
                    Elt("span", 0, FALSE) >>],
       \* 7: an empty page
       [title |-> FALSE, body |-> << >>]
    >>

----------------------------------------------------------------------------
(* The element list, document.getElementsByTagName("*"): <html>, <head>,   *)
(* the <title>, <body>, the <style> and <div id="screenReader"> that       *)
(* window.onload puts first in the body, the controls renderControls       *)
(* writes into the div, and then the page's own elements.                  *)

Node(uid, tag, sr, parent, foc) ==
    [uid |-> uid, tag |-> tag, sr |-> sr, parent |-> parent, foc |-> foc]

\* <body>, what document.activeElement is when no element has the focus
BodyUid == 4

\* the uids renderControls' innerHTML assignment creates anew
InjectedUids == 7..19

ContentUid(k) == 20 + k

\* <span>mode</span>, <button id="__sr_help"> and one
\* <button id="__sr_controls_i"> for each binding of the mode
Controls(modeKeys) ==
    << Node(7, "span", FALSE, 6, FALSE), Node(8, "button", TRUE, 6, TRUE) >>
    \o [i \in 1..Len(modeKeys) |-> Node(8 + i, "button", TRUE, 6, TRUE)]

\* the page as window.onload finds and extends it, #screenReader still empty
Page(d) ==
    LET body == Docs[d].body
    IN  << Node(1, "html", FALSE, 0, FALSE), Node(2, "head", FALSE, 1, FALSE) >>
        \o (IF Docs[d].title
            THEN << Node(3, "title", FALSE, 2, FALSE) >>
            ELSE << >>)
        \o << Node(BodyUid, "body", FALSE, 1, FALSE),
              Node(5, "style", FALSE, BodyUid, FALSE),
              Node(6, "div", FALSE, BodyUid, FALSE) >>
        \o [k \in 1..Len(body) |->
                Node(ContentUid(k), body[k].tag, FALSE,
                     IF body[k].parent = 0 THEN BodyUid
                     ELSE ContentUid(body[k].parent),
                     body[k].foc)]

\* let all = document.getElementsByTagName("*")
all(s) == s.elements

\* the loop every handler starts with: the index of the first element
\* carrying __current_sr_elt, Len + 1 (all.length) if none does
prevIdxOf(s) ==
    LET a == s.elements
    IN  IF \E i \in 1..Len(a) : a[i].uid \in s.marked
        THEN CHOOSE i \in 1..Len(a) :
                /\ a[i].uid \in s.marked
                /\ \A j \in 1..(i - 1) : a[j].uid \notin s.marked
        ELSE Len(a) + 1

classList_add(s, node) == [s EXCEPT !.marked = @ \cup {node.uid}]

classList_remove(s, node) == [s EXCEPT !.marked = @ \ {node.uid}]

\* HTMLElement.focus(): only a focusable element takes the input focus
focus(s, node) == IF node.foc THEN [s EXCEPT !.active = node.uid] ELSE s

\* HTMLElement.blur(): the focus falls back to <body>
blur(s, node) == IF s.active = node.uid THEN [s EXCEPT !.active = BodyUid] ELSE s

parentOf(a, uid) ==
    IF \E i \in 1..Len(a) : a[i].uid = uid
    THEN (CHOOSE n \in {a[i] : i \in 1..Len(a)} : n.uid = uid).parent
    ELSE 0

nodeOf(a, uid) == CHOOSE n \in {a[i] : i \in 1..Len(a)} : n.uid = uid

RECURSIVE isInside(_, _, _)
isInside(a, uid, root) ==
    LET p == parentOf(a, uid)
    IN  IF p = 0 THEN FALSE
        ELSE IF p = root THEN TRUE
        ELSE isInside(a, p, root)

\* root.getElementsByTagName(tag), root.querySelectorAll("th,td"): the
\* descendants of root with one of the tags, in document order
descendants(a, root, tags) ==
    SelectSeq(a, LAMBDA n : n.tag \in tags /\ isInside(a, n.uid, root))

\* Array.indexOf, 1-based: 0 where JavaScript answers -1
indexOf(seq, uid) ==
    IF \E i \in 1..Len(seq) : seq[i].uid = uid
    THEN CHOOSE i \in 1..Len(seq) : seq[i].uid = uid
    ELSE 0

----------------------------------------------------------------------------
(* unnamed/part_000: the main script.                                      *)

Msg(msg) == Text(msg, 0, <<>>)

\* the text an element is read as; NoText stands for undefined
elementToString(a, elt) ==
    CASE elt.tag = "title" -> Text("Title: ", elt.uid, <<>>)
      [] elt.tag = "h1" -> Text("Header 1: ", elt.uid, <<>>)
      [] elt.tag = "h2" -> Text("Header 2: ", elt.uid, <<>>)
      [] elt.tag = "h3" -> Text("Header 3: ", elt.uid, <<>>)
      [] elt.tag = "h4" -> Text("Header 4: ", elt.uid, <<>>)
      [] elt.tag = "h5" -> Text("Header 5: ", elt.uid, <<>>)
      [] elt.tag = "h6" -> Text("Header 6: ", elt.uid, <<>>)
      [] elt.tag = "p" -> Text("Paragraph: ", elt.uid, <<>>)
      \* ("Here is an image " + hasAttribute("alt")) ? ... : ... is always
      \* its first branch
      [] elt.tag = "img" -> Text("with description ", elt.uid, <<>>)
      [] elt.tag = "a" -> Text("This is a link to ", elt.uid, <<>>)
      [] elt.tag = "button" -> Text("This is a button with text ", elt.uid, <<>>)
      [] elt.tag = "table" ->
            LET captions == descendants(a, elt.uid, {"caption"})
            IN  IF Len(captions) > 0
                THEN Text("This is a table with caption", captions[1].uid,
                          << "Press T to explore this table." >>)
                ELSE Text("This is a table", 0,
                          << "Press T to explore this table." >>)
      [] OTHER -> NoText

\* renderControls: the controls of the current mode replace the children
\* of #screenReader, whose marks and input focus go with them
renderControls(s) ==
    LET kept == SelectSeq(s.elements, LAMBDA n : n.uid \notin InjectedUids)
        div == CHOOSE i \in 1..Len(kept) : kept[i].uid = 6
        modeKeys == getAllKeybinds(s.keybinds, ModalityStack_mode(s))
    IN  [s EXCEPT !.elements = SubSeq(kept, 1, div) \o Controls(modeKeys)
                               \o SubSeq(kept, div + 1, Len(kept)),
                  !.marked = @ \ InjectedUids,
                  !.active = IF @ \in InjectedUids THEN BodyUid ELSE @]

popMode(s) == renderControls(ModalityStack_popMode(s))

pushMode(s, mode) == renderControls(ModalityStack_pushMode(s, mode))

speakHelp(s) ==
    speak(s, Text(ModeName(ModalityStack_mode(s)), 0,
                  getHelpString(s.keybinds, ModalityStack_mode(s))))

readCell(s) ==
    LET a == all(s)
        prevIdx == prevIdxOf(s)
    IN  IF prevIdx = Len(a) + 1 THEN s
        ELSE LET toSpeak == CASE a[prevIdx].tag = "th" -> "Column header: "
                              [] a[prevIdx].tag = "td" -> "Table cell: "
                              [] OTHER -> ""
             IN  speak(s, Text(toSpeak, a[prevIdx].uid, <<>>))

\* a normalRead that does not pass over the injected controls
RECURSIVE normalRead_readsControls(_)
normalRead_readsControls(s) ==
    LET a == all(s)
        prevIdx == prevIdxOf(s)
    IN  IF prevIdx = Len(a) THEN s
        ELSE LET next == IF prevIdx = Len(a) + 1 THEN 1 ELSE prevIdx + 1
                 s1 == IF prevIdx = Len(a) + 1 THEN s
                       ELSE classList_remove(blur(s, a[prevIdx]), a[prevIdx])
                 s2 == focus(classList_add(s1, a[next]), a[next])
                 stringified == elementToString(a, a[next])
             IN  IF stringified # NoText THEN speak(s2, stringified)
                 ELSE normalRead_readsControls(s2)

\* a normalRead that says so when it passes over a node without a text
RECURSIVE normalRead_announcesSkipped(_)
normalRead_announcesSkipped(s) ==
    LET a == all(s)
        prevIdx == prevIdxOf(s)
    IN  IF prevIdx = Len(a) THEN s
        ELSE LET next == IF prevIdx = Len(a) + 1 THEN 1 ELSE prevIdx + 1
                 s1 == IF prevIdx = Len(a) + 1 THEN s
                       ELSE classList_remove(blur(s, a[prevIdx]), a[prevIdx])
                 s2 == focus(classList_add(s1, a[next]), a[next])
                 stringified == elementToString(a, a[next])
             IN  IF a[next].sr THEN normalRead_announcesSkipped(s2)
                 ELSE IF stringified # NoText THEN speak(s2, stringified)
                 ELSE normalRead_announcesSkipped(speak(s2, Msg("Skipped.")))

RECURSIVE normalRead(_)
normalRead(s) ==
    LET a == all(s)
        prevIdx == prevIdxOf(s)
    IN  IF prevIdx = Len(a) THEN s
        ELSE LET next == IF prevIdx = Len(a) + 1 THEN 1 ELSE prevIdx + 1
                 s1 == IF prevIdx = Len(a) + 1 THEN s
                       ELSE classList_remove(blur(s, a[prevIdx]), a[prevIdx])
                 s2 == focus(classList_add(s1, a[next]), a[next])
                 stringified == elementToString(a, a[next])
             IN  IF a[next].sr THEN normalRead(s2)
                 ELSE IF stringified # NoText THEN speak(s2, stringified)
                 ELSE normalRead(s2)

\* the sessions the successive invocations of normalRead start from when it
\* is called on s: s itself, then one for every call it makes to itself
RECURSIVE normalReadCalls(_)
normalReadCalls(s) ==
    LET a == all(s)
        prevIdx == prevIdxOf(s)
    IN  IF prevIdx = Len(a) THEN << s >>
        ELSE LET next == IF prevIdx = Len(a) + 1 THEN 1 ELSE prevIdx + 1
                 s1 == IF prevIdx = Len(a) + 1 THEN s
                       ELSE classList_remove(blur(s, a[prevIdx]), a[prevIdx])
                 s2 == focus(classList_add(s1, a[next]), a[next])
                 stringified == elementToString(a, a[next])
             IN  IF a[next].sr THEN << s >> \o normalReadCalls(s2)
                 ELSE IF stringified # NoText THEN << s >>
                 ELSE << s >> \o normalReadCalls(s2)

\* the do-while of the ArrowUp handler: the first i >= from such that
\* all[prevIdx - i] is not a control and has a text; 0 when the index runs
\* off the front of the list (all[-1].id: a TypeError)
\* a scan that stops at the element just before, whatever it is
scanBack_oneBack(a, prevIdx, i) == IF prevIdx - i < 1 THEN 0 ELSE i

RECURSIVE scanBack(_, _, _)
scanBack(a, prevIdx, i) ==
    IF prevIdx - i < 1 THEN 0
    ELSE IF a[prevIdx - i].sr THEN scanBack(a, prevIdx, i + 1)
    ELSE IF elementToString(a, a[prevIdx - i]) # NoText THEN i
    ELSE scanBack(a, prevIdx, i + 1)

\* a retreat that enters Table mode when it lands on a table
normalArrowUp_entersTable(s) ==
    LET a == all(s)
        prevIdx == prevIdxOf(s)
    IN  IF prevIdx = Len(a) + 1 \/ prevIdx = 1
        THEN normalRead(classList_remove(s, a[1]))
        ELSE LET s1 == blur(classList_remove(s, a[prevIdx]), a[prevIdx])
                 i == scanBack(a, prevIdx, 1)
             IN  IF i = 0 THEN [s1 EXCEPT !.thrown = TRUE]
                 ELSE LET s2 == speak(focus(classList_add(s1, a[prevIdx - i]),
                                            a[prevIdx - i]),
                                      elementToString(a, a[prevIdx - i]))
                      IN  IF a[prevIdx - i].tag = "table"
                          THEN pushMode(s2, TABLE)
                          ELSE s2

normalArrowUp(s) ==
    LET a == all(s)
        prevIdx == prevIdxOf(s)
    IN  IF prevIdx = Len(a) + 1 \/ prevIdx = 1
        THEN normalRead(classList_remove(s, a[1]))
        ELSE LET s1 == blur(classList_remove(s, a[prevIdx]), a[prevIdx])
                 i == scanBack(a, prevIdx, 1)
             IN  IF i = 0 THEN [s1 EXCEPT !.thrown = TRUE]
                 ELSE speak(focus(classList_add(s1, a[prevIdx - i]), a[prevIdx - i]),
                            elementToString(a, a[prevIdx - i]))

\* a pause that pushes EDIT
normalPause_pushesEdit(s) == pushMode(pause(s), EDIT)

normalPause(s) == pushMode(pause(s), PAUSED)

\* a 't' handler that enters the table without looking at its rows and cells
normalT_noRefusal(s) ==
    LET a == all(s)
        prevIdx == prevIdxOf(s)
    IN  IF prevIdx = Len(a) + 1 \/ a[prevIdx].tag # "table"
        THEN speak(s, Msg("You are currently not hovering over a table element."))
        ELSE LET allCols == descendants(a, a[prevIdx].uid, {"th", "td"})
                 s1 == blur(classList_remove(stop(s), a[prevIdx]), a[prevIdx])
                 s2 == IF Len(allCols) = 0 THEN s1
                       ELSE classList_add(s1, allCols[1])
             IN  readCell(pushMode(s2, TABLE))

\* a 't' handler that enters table mode on whatever element is marked
normalT_anyElement(s) ==
    LET a == all(s)
        prevIdx == prevIdxOf(s)
    IN  IF prevIdx = Len(a) + 1
        THEN speak(s, Msg("You are currently not hovering over a table element."))
        ELSE readCell(pushMode(stop(s), TABLE))

normalT(s) ==
    LET a == all(s)
        prevIdx == prevIdxOf(s)
    IN  IF prevIdx = Len(a) + 1 \/ a[prevIdx].tag # "table"
        THEN speak(s, Msg("You are currently not hovering over a table element."))
        ELSE LET s1 == stop(s)
                 allRows == descendants(a, a[prevIdx].uid, {"tr"})
             IN  IF Len(allRows) = 0
                 THEN speak(s1, Msg("This table has no rows."))
                 ELSE LET allCols == descendants(a, allRows[1].uid, {"th", "td"})
                      IN  IF Len(allCols) = 0
                          THEN speak(s1, Msg("This table has no columns."))
                          ELSE LET s2 == classList_remove(s1, a[prevIdx])
                                   s3 == blur(s2, a[prevIdx])
                                   s4 == classList_add(s3, allCols[1])
                               IN  readCell(pushMode(s4, TABLE))

\* a pause in Table that changes the mode and leaves the synth alone
tablePause_modeOnly(s) == pushMode(s, PAUSED)

tablePause(s) == pushMode(pause(s), PAUSED)

\* an ArrowRight handler that goes round to the first cell at the end of a row
tableArrowRight_wraps(s) ==
    LET a == all(s)
        prevIdx == prevIdxOf(s)
    IN  IF prevIdx = Len(a) + 1 THEN s
        ELSE IF a[prevIdx].parent = 0 THEN [s EXCEPT !.thrown = TRUE]
        ELSE LET prevNode == a[prevIdx]
                 siblings == descendants(a, prevNode.parent, {"th", "td"})
                 prevNodeIdx == indexOf(siblings, prevNode.uid)
                 s1 == classList_remove(blur(s, prevNode), prevNode)
                 next == siblings[(prevNodeIdx % Len(siblings)) + 1]
             IN  readCell(classList_add(focus(s1, next), next))

tableArrowRight(s) ==
    LET a == all(s)
        prevIdx == prevIdxOf(s)
    IN  IF prevIdx = Len(a) + 1 THEN s
        ELSE IF a[prevIdx].parent = 0 THEN [s EXCEPT !.thrown = TRUE]
        ELSE LET prevNode == a[prevIdx]
                 siblings == descendants(a, prevNode.parent, {"th", "td"})
                 prevNodeIdx == indexOf(siblings, prevNode.uid)
             IN  IF prevNodeIdx < Len(siblings)
                 THEN LET s1 == classList_remove(blur(s, prevNode), prevNode)
                          next == siblings[prevNodeIdx + 1]
                      IN  readCell(classList_add(focus(s1, next), next))
                 ELSE speak(s, Msg("There are no more cells to the right."))

\* a move to the left that leaves the mark on the cell it comes from
tableArrowLeft_keepsMark(s) ==
    LET a == all(s)
        prevIdx == prevIdxOf(s)
    IN  IF prevIdx = Len(a) + 1 THEN s
        ELSE IF a[prevIdx].parent = 0 THEN [s EXCEPT !.thrown = TRUE]
        ELSE LET prevNode == a[prevIdx]
                 siblings == descendants(a, prevNode.parent, {"th", "td"})
                 prevNodeIdx == indexOf(siblings, prevNode.uid)
             IN  IF prevNodeIdx > 1
                 THEN LET s1 == blur(s, prevNode)
                          next == siblings[prevNodeIdx - 1]
                      IN  readCell(classList_add(focus(s1, next), next))
                 ELSE speak(s, Msg("There are no more cells to the left."))

tableArrowLeft(s) ==
    LET a == all(s)
        prevIdx == prevIdxOf(s)
    IN  IF prevIdx = Len(a) + 1 THEN s
        ELSE IF a[prevIdx].parent = 0 THEN [s EXCEPT !.thrown = TRUE]
        ELSE LET prevNode == a[prevIdx]
                 siblings == descendants(a, prevNode.parent, {"th", "td"})
                 prevNodeIdx == indexOf(siblings, prevNode.uid)
             IN  IF prevNodeIdx > 1
                 THEN LET s1 == classList_remove(blur(s, prevNode), prevNode)
                          next == siblings[prevNodeIdx - 1]
                      IN  readCell(classList_add(focus(s1, next), next))
                 ELSE speak(s, Msg("There are no more cells to the left."))

\* while (tableElt.tagName !== "TABLE") tableElt = tableElt.parentElement:
\* the enclosing table, 0 when the walk runs off the root (a TypeError)
RECURSIVE tableEltOf(_, _)
tableEltOf(a, uid) ==
    IF uid = 0 THEN 0
    ELSE IF nodeOf(a, uid).tag = "table" THEN uid
    ELSE tableEltOf(a, parentOf(a, uid))

Min(x, y) == IF x < y THEN x ELSE y

\* a vertical move that keeps the column index whatever the length of the
\* row it moves into
tableVertical_noClamp(s, dir) ==
    LET a == all(s)
        prevIdx == prevIdxOf(s)
    IN  IF prevIdx = Len(a) + 1 THEN s
        ELSE IF a[prevIdx].parent = 0 \/ tableEltOf(a, a[prevIdx].uid) = 0
        THEN [s EXCEPT !.thrown = TRUE]
        ELSE LET prevNode == a[prevIdx]
                 siblings == descendants(a, prevNode.parent, {"th", "td"})
                 prevNodeIdx == indexOf(siblings, prevNode.uid)
                 rows == descendants(a, tableEltOf(a, prevNode.uid), {"tr"})
                 rowIdx == indexOf(rows, prevNode.parent)
             IN  IF dir = 1 /\ rowIdx = Len(rows)
                 THEN speak(s, Msg("There are no more rows below this one."))
                 ELSE IF dir = -1 /\ rowIdx = 1
                 THEN speak(s, Msg("There are no more rows above this one."))
                 ELSE IF rowIdx + dir < 1
                 THEN [s EXCEPT !.thrown = TRUE]
                 ELSE LET belowCells == descendants(a, rows[rowIdx + dir].uid,
                                                    {"th", "td"})
                          s1 == classList_remove(blur(s, prevNode), prevNode)
                      IN  IF prevNodeIdx < 1 \/ prevNodeIdx > Len(belowCells)
                          THEN [s1 EXCEPT !.thrown = TRUE]
                          ELSE readCell(classList_add(
                                   focus(s1, belowCells[prevNodeIdx]),
                                   belowCells[prevNodeIdx]))

\* ArrowDown (dir = 1) and ArrowUp (dir = -1) in TABLE mode
tableVertical(s, dir) ==
    LET a == all(s)
        prevIdx == prevIdxOf(s)
    IN  IF prevIdx = Len(a) + 1 THEN s
        ELSE IF a[prevIdx].parent = 0 \/ tableEltOf(a, a[prevIdx].uid) = 0
        THEN [s EXCEPT !.thrown = TRUE]
        ELSE LET prevNode == a[prevIdx]
                 siblings == descendants(a, prevNode.parent, {"th", "td"})
                 prevNodeIdx == indexOf(siblings, prevNode.uid)
                 rows == descendants(a, tableEltOf(a, prevNode.uid), {"tr"})
                 rowIdx == indexOf(rows, prevNode.parent)
             IN  IF dir = 1 /\ rowIdx = Len(rows)
                 THEN speak(s, Msg("There are no more rows below this one."))
                 ELSE IF dir = -1 /\ rowIdx = 1
                 THEN speak(s, Msg("There are no more rows above this one."))
                 ELSE IF rowIdx + dir < 1
                 \* rows[-2].querySelectorAll: a TypeError
                 THEN [s EXCEPT !.thrown = TRUE]
                 ELSE LET belowCells == descendants(a, rows[rowIdx + dir].uid,
                                                    {"th", "td"})
                          nextIdx == Min(prevNodeIdx, Len(belowCells))
                          s1 == classList_remove(blur(s, prevNode), prevNode)
                      IN  IF nextIdx < 1
                          \* nextNode is undefined: nextNode.focus() throws
                          THEN [s1 EXCEPT !.thrown = TRUE]
                          ELSE readCell(classList_add(
                                   focus(s1, belowCells[nextIdx]),
                                   belowCells[nextIdx]))

tableArrowDown(s) == tableVertical(s, 1)

tableArrowUp(s) == tableVertical(s, -1)

\* a 'q' handler that leaves the table without reading on
tableQ_noRead(s) == popMode(s)

tableQ(s) == normalRead(popMode(s))

\* an unpause that reads on whatever mode it reveals
pausedUnpause_alwaysRead(s) ==
    LET s1 == popMode(resume(s))
    IN  IF ~voiceSynth_speaking(s1) THEN normalRead(s1) ELSE s1

\* an unpause that pops twice
pausedUnpause_popTwice(s) ==
    LET s1 == popMode(popMode(resume(s)))
    IN  IF ModalityStack_mode(s1) = NORMAL /\ ~voiceSynth_speaking(s1)
        THEN normalRead(s1)
        ELSE s1

pausedUnpause(s) ==
    LET s1 == popMode(resume(s))
    IN  IF ModalityStack_mode(s1) = NORMAL /\ ~voiceSynth_speaking(s1)
        THEN normalRead(s1)
        ELSE s1

editEscape(s) == popMode(s)

RECURSIVE callback(_, _)

\* (document.activeElement as HTMLElement).click(): a control of
\* #screenReader runs the listener renderControls gave it (a click() on the
\* element whose click is in progress does nothing); what a click does to
\* an element of the page is the page's business
normalSpace(s) ==
    IF s.active = 8 THEN speakHelp(s)
    ELSE IF s.active \in InjectedUids /\ s.active > 8
    THEN LET bind == getAllKeybinds(s.keybinds, ModalityStack_mode(s))[s.active - 8]
         IN  IF bind.callback = "normalSpace" THEN s
             ELSE callback(bind.callback,
                           [s EXCEPT !.invoked = Append(@, bind.callback)])
    ELSE s

\* keybinds[mode][key].callback(): one of the handlers the script
\* registers, or a function of another caller that leaves the session alone
callback(name, s) ==
    CASE name = "pausedUnpause" -> pausedUnpause(s)
      [] name = "editEscape" -> editEscape(s)
      [] name = "normalPause" -> normalPause(s)
      [] name = "normalRead" -> normalRead(s)
      [] name = "normalArrowUp" -> normalArrowUp(s)
      [] name = "normalArrowLeft" -> decreaseVoiceRate(s)
      [] name = "normalArrowRight" -> increaseVoiceRate(s)
      [] name = "normalT" -> normalT(s)
      [] name = "normalSpace" -> normalSpace(s)
      [] name = "tablePause" -> tablePause(s)
      [] name = "tableArrowRight" -> tableArrowRight(s)
      [] name = "tableArrowLeft" -> tableArrowLeft(s)
      [] name = "tableArrowDown" -> tableArrowDown(s)
      [] name = "tableArrowUp" -> tableArrowUp(s)
      [] name = "tableQ" -> tableQ(s)
      [] OTHER -> s

\* a triggerEvent that looks the key up in the NORMAL bindings in every mode
triggerEvent_ignoreMode(s, mode, keyName) ==
    LET i == bindIndex(s.keybinds[NORMAL], keyName)
    IN  IF i # 0
        THEN callback(s.keybinds[NORMAL][i].callback,
                      [s EXCEPT !.prevented = TRUE,
                                !.invoked = Append(@, s.keybinds[NORMAL][i].callback)])
        ELSE s

\* Keybinds.triggerEvent (keybinds.ts)
triggerEvent(s, mode, keyName) ==
    LET i == bindIndex(s.keybinds[mode], keyName)
    IN  IF i # 0
        THEN callback(s.keybinds[mode][i].callback,
                      [s EXCEPT !.prevented = TRUE,
                                !.invoked = Append(@, s.keybinds[mode][i].callback)])
        ELSE s

globalKeystrokes(s, keyName) ==
    IF keyName = "F1"
    THEN speakHelp(stop(s))
    ELSE triggerEvent(s, ModalityStack_mode(s), keyName)

----------------------------------------------------------------------------
(* The session: window.onload, then keydown events and the engine's end    *)
(* of an utterance, one at a time.                                         *)

\* the state window.onload leaves behind on page d
Boot(d) ==
    LET s == [stack |-> ModalityStack_new, speechRate |-> 0, isPause |-> TRUE,
              voiceQueue |-> <<>>, voicePaused |-> FALSE,
              keybinds |-> registerAll, doc |-> d, elements |-> Page(d),
              marked |-> {}, active |-> BodyUid,
              op |-> "onload", key |-> "", ret |-> -1, said |-> NoText,
              prevented |-> FALSE, thrown |-> FALSE, cancelled |-> NoText,
              asked |-> <<>>, invoked |-> <<>>, args |-> <<>>,
              registered |-> Registrations(registerAll), incCalls |-> 0,
              rateCalls |-> 0]
    IN  renderControls(SpeechSynth_new(s))

Loaded(s) ==
    /\ stack = s.stack
    /\ speechRate = s.speechRate
    /\ isPause = s.isPause
    /\ voiceQueue = s.voiceQueue
    /\ voicePaused = s.voicePaused
    /\ keybinds = s.keybinds
    /\ doc = s.doc
    /\ elements = s.elements
    /\ marked = s.marked
    /\ active = s.active
    /\ op = s.op
    /\ key = s.key
    /\ ret = s.ret
    /\ said = s.said
    /\ prevented = s.prevented
    /\ thrown = s.thrown
    /\ cancelled = s.cancelled
    /\ asked = s.asked
    /\ invoked = s.invoked
    /\ args = s.args
    /\ registered = s.registered
    /\ incCalls = s.incCalls
    /\ rateCalls = s.rateCalls

Keys ==
    {"p", "ArrowDown", "ArrowUp", "ArrowLeft", "ArrowRight", "t", " ", "q",
     "Escape", "F1", "x"}

\* the keys whose handler changes the speech rate
IsRateKey(s, keyName) ==
    /\ ModalityStack_mode(s) = NORMAL
    /\ keyName \in {"ArrowLeft", "ArrowRight"}

\* one keydown event delivered to the listener, whole
keydown(s, keyName) ==
    globalKeystrokes([s EXCEPT !.op = "keydown", !.key = keyName,
                               !.said = NoText, !.prevented = FALSE,
                               !.thrown = FALSE, !.cancelled = NoText,
                               !.asked = <<>>, !.invoked = <<>>,
                               !.args = <<>>,
                               !.rateCalls = IF IsRateKey(s, keyName)
                                             THEN @ + 1 ELSE @],
                     keyName)

\* document.addEventListener("keydown", globalKeystrokes)
Keydown(keyName) ==
    /\ IsRateKey(Cur, keyName) => rateCalls < MaxRateKeys
    /\ Commit(keydown(Cur, keyName))

\* the engine finishes the utterance in flight; no caller of speak() passes
\* an onEnd, so utterance.onend is the default () => {}
UtteranceEnd ==
    /\ ~voicePaused
    /\ voiceQueue # <<>>
    /\ Commit([Begin EXCEPT !.voiceQueue = Tail(@), !.op = "onend"])

Init == \E d \in 1..Len(Docs) : Loaded(Boot(d))

Next ==
    \/ \E keyName \in Keys : Keydown(keyName)
    \/ UtteranceEnd

Spec == Init /\ [][Next]_vars

----------------------------------------------------------------------------
(* A ModalityStack on its own, under any calls.                            *)

CallPushMode(mode) ==
    /\ Len(stack) < MaxStack
    /\ Commit([ModalityStack_pushMode(Begin, mode) EXCEPT !.op = "pushMode"])

CallPopMode ==
    Commit([ModalityStack_popMode(Begin) EXCEPT !.op = "popMode"])

CallMode ==
    Commit([Begin EXCEPT !.op = "mode", !.ret = ModalityStack_mode(Begin)])

InitStack == Loaded(Boot(1))

NextStack ==
    \/ \E mode \in ReaderModality : CallPushMode(mode)
    \/ CallPopMode
    \/ CallMode

SpecStack == InitStack /\ [][NextStack]_vars

----------------------------------------------------------------------------
(* A SpeechSynth on its own: its rate under any calls, and its speech      *)
(* under any calls.                                                        *)

HarnessTexts == {Msg("A"), Msg("B"), Msg("C")}

Factors ==
    {<<11, 10>>, <<9, 10>>, <<2, 1>>, <<1, 2>>, <<0, 1>>, <<-1, 1>>, <<100, 1>>,
     <<1, 0>>, <<-1, 0>>, <<0, 0>>}

CallSpeak(text) ==
    Commit([speak([Begin EXCEPT !.said = NoText, !.thrown = FALSE], text)
                EXCEPT !.op = "speak"])

\* one of the first 50 calls of a run of increaseVoiceRate alone
CallIncreaseFirst ==
    /\ incCalls >= 0
    /\ incCalls < 50
    /\ Commit([increaseVoiceRate(Begin) EXCEPT !.op = "increaseVoiceRate",
                                             !.incCalls = @ + 1])

CallIncreaseVoiceRate ==
    /\ incCalls < 0 \/ incCalls >= 50
    /\ rateCalls < MaxRateCalls
    /\ Commit([increaseVoiceRate(Begin) EXCEPT !.op = "increaseVoiceRate",
                                             !.incCalls = -1,
                                             !.rateCalls = @ + 1])

CallDecreaseVoiceRate ==
    /\ rateCalls < MaxRateCalls
    /\ Commit([decreaseVoiceRate(Begin) EXCEPT !.op = "decreaseVoiceRate",
                                             !.incCalls = -1,
                                             !.rateCalls = @ + 1])

CallChangeVoiceRate(factor) ==
    /\ rateCalls < MaxRateCalls
    /\ Commit([changeVoiceRate(Begin, factor) EXCEPT !.op = "changeVoiceRate",
                                                   !.incCalls = -1,
                                                   !.rateCalls = @ + 1])

NextRate ==
    \/ CallIncreaseFirst
    \/ CallIncreaseVoiceRate
    \/ CallDecreaseVoiceRate
    \/ \E factor \in Factors : CallChangeVoiceRate(factor)
    \/ \E text \in HarnessTexts : CallSpeak(text)

SpecRate == InitStack /\ [][NextRate]_vars

CallStop == Commit([stop(Begin) EXCEPT !.op = "stop"])

CallPause == Commit([pause(Begin) EXCEPT !.op = "pause"])

CallResume == Commit([resume(Begin) EXCEPT !.op = "resume"])

CallStopNGo == Commit([stopNGo(Begin) EXCEPT !.op = "stopNGo"])

NextSynth ==
    \/ \E factor \in {<<11, 10>>, <<9, 10>>} : CallChangeVoiceRate(factor)
    \/ CallStop
    \/ CallPause
    \/ CallResume
    \/ CallStopNGo
    \/ \E text \in HarnessTexts : CallSpeak(text)
    \/ UtteranceEnd

SpecSynth == InitStack /\ [][NextSynth]_vars

----------------------------------------------------------------------------
(* A Keybinds on its own, under any registrations, dispatches and help     *)
(* requests. The callbacks are functions that leave the session alone.     *)

KbModes == {NORMAL, PAUSED}

KbKeys == {"p", "a"}

KbDescriptions == {"Pause", "Unpause"}

KbCallbacks == {"f", "g"}

\* the state a call on the Keybinds starts from: what the last call
\* returned and did is forgotten
BeginKb ==
    [Begin EXCEPT !.key = "", !.ret = -1, !.prevented = FALSE,
                  !.thrown = FALSE, !.said = NoText]

CallRegisterKeybind(forMode, keyName, description, cb) ==
    Commit([BeginKb EXCEPT
        !.keybinds = registerKeybind(@, forMode, keyName, description, cb),
        !.registered = {r \in @ : r.mode # forMode \/ r.key # keyName}
                        \cup {[mode |-> forMode, key |-> keyName,
                               description |-> description, callback |-> cb]},
        !.op = "registerKeybind",
        !.args = <<forMode, keyName, description, cb>>])

CallTriggerEvent(mode, keyName) ==
    Commit([triggerEvent(BeginKb, mode, keyName)
                EXCEPT !.op = "triggerEvent", !.key = keyName,
                       !.args = <<mode, keyName>>])

CallGetHelpString(mode) ==
    Commit([BeginKb EXCEPT !.op = "getHelpString", !.args = <<mode>>,
                           !.ret = getHelpString(BeginKb.keybinds, mode)])

\* new Keybinds(): no binding in any mode
InitKeybinds ==
    Loaded(renderControls([Boot(7) EXCEPT !.keybinds = Keybinds_new,
                                          !.registered = {}]))

NextKeybinds ==
    \/ \E forMode \in KbModes, keyName \in KbKeys,
          description \in KbDescriptions, cb \in KbCallbacks :
            CallRegisterKeybind(forMode, keyName, description, cb)
    \/ \E mode \in KbModes, keyName \in KbKeys : CallTriggerEvent(mode, keyName)
    \/ \E mode \in KbModes : CallGetHelpString(mode)

SpecKeybinds == InitKeybinds /\ [][NextKeybinds]_vars

----------------------------------------------------------------------------
(* normalRead on its own: called again and again in NORMAL mode, from any  *)
(* place a handler or one of its own calls may have left the mark at.      *)

\* the state a call of normalRead starts from
BeginRead == [Begin EXCEPT !.said = NoText, !.thrown = FALSE]

\* the mark is on the i-th element alone, on no element for i = 0
PlaceMark(i) ==
    Commit([BeginRead EXCEPT !.marked = IF i = 0 THEN {} ELSE {elements[i].uid},
                             !.op = "mark"])

CallNormalRead == Commit([normalRead(BeginRead) EXCEPT !.op = "normalRead"])

\* NORMAL mode on any page, as the first 'p' reveals it
InitRead == \E d \in 1..Len(Docs) : Loaded(popMode(Boot(d)))

NextRead ==
    \/ \E i \in 0..Len(elements) : PlaceMark(i)
    \/ CallNormalRead

SpecRead == InitRead /\ [][NextRead]_vars

-----------------------------------------------------------------------------
(* The properties.                                                         *)

\* C1: under any pushMode/popMode/mode calls the stack never has fewer than
\* one entry; popMode on a stack of one entry leaves it as it is and returns
\* that entry, popMode on a longer stack removes the top entry and returns it
C1_StackNeverEmpty ==
    /\ [](Len(stack) >= 1)
    /\ [][op' = "popMode" =>
            IF Len(stack) = 1
            THEN stack' = stack /\ ret' = stack[1]
            ELSE /\ stack' = SubSeq(stack, 1, Len(stack) - 1)
                 /\ ret' = stack[Len(stack)]]_vars

\* popMode has just been called on a stack holding only NORMAL, after
\* earlier calls had popped PAUSED off it
C1_Witness ==
    /\ op = "popMode"
    /\ stack = << NORMAL >>
    /\ ret = NORMAL

-----------------------------------------------------------------------------
(* What the properties of a session speak of: the focused node is the one  *)
(* carrying __current_sr_elt, a narratable node is one outside the         *)
(* injected controls that elementToString gives a text for.                *)

\* the position in a of the focused node, 0 if no node is focused
FocusIdx(a, m) ==
    IF \E i \in 1..Len(a) : a[i].uid \in m
    THEN CHOOSE i \in 1..Len(a) :
            /\ a[i].uid \in m
            /\ \A j \in 1..(i - 1) : a[j].uid \notin m
    ELSE 0

Narratable(a, i) == ~a[i].sr /\ elementToString(a, a[i]) # NoText

\* the position of the first narratable node after position i, 0 if none
NextNarratable(a, i) ==
    IF \E j \in (i + 1)..Len(a) : Narratable(a, j)
    THEN CHOOSE j \in (i + 1)..Len(a) :
            /\ Narratable(a, j)
            /\ \A k \in (i + 1)..(j - 1) : ~Narratable(a, k)
    ELSE 0

\* this step is one linear advance from the node focused before it: the
\* next narratable node in document order takes the focus and is the one
\* utterance in the engine; with no such node nothing is narrated
OneAdvance ==
    LET j == NextNarratable(elements', FocusIdx(elements', marked))
    IN  IF j # 0
        THEN /\ marked' = {elements'[j].uid}
             /\ said' = elementToString(elements', elements'[j])
             /\ voiceQueue' = << Utterance(said', speechRate) >>
        ELSE /\ said' = NoText
             /\ voiceQueue' = voiceQueue

\* this step is the keydown of keyName while the current mode is mode
KeyIn(keyName, mode) ==
    /\ op' = "keydown"
    /\ key' = keyName
    /\ ModalityStack_mode(Cur) = mode

\* C2: the session starts on [Normal, Paused] with no node focused; 'p' in
\* Paused resumes the engine and pops; when that reveals Normal and the
\* engine holds no utterance the step is one advance (the first narratable
\* node of the document when nothing was focused), and when it reveals Table
\* or the engine holds an utterance the focus stays and nothing is narrated
C2_StartAndUnpause ==
    /\ stack = << NORMAL, PAUSED >> /\ marked = {}
    /\ [][KeyIn("p", PAUSED) =>
            /\ stack' = SubSeq(stack, 1, Len(stack) - 1)
            /\ ~isPause' /\ ~voicePaused'
            /\ IF stack'[Len(stack')] = NORMAL /\ voiceQueue = << >>
               THEN OneAdvance
               ELSE /\ marked' = marked
                    /\ said' = NoText
                    /\ voiceQueue' = voiceQueue]_vars

\* the first 'p' of a session on a page with a title has just narrated the
\* title, the first narratable node of the document
C2_Witness ==
    /\ op = "keydown" /\ key = "p"
    /\ stack = << NORMAL >>
    /\ marked = {3}
    /\ said = elementToString(elements, nodeOf(elements, 3))
    /\ voiceQueue = << Utterance(said, speechRate) >>

\* C3: 'p' in Normal or in Table pauses the engine and pushes Paused on top
\* of the current mode; the 'p' after it pops that one entry, so the stack
\* after pause-then-unpause is the stack before the pause
C3_PauseRoundTrip ==
    [][(KeyIn("p", NORMAL) \/ KeyIn("p", TABLE)) =>
            /\ stack' = Append(stack, PAUSED)
            /\ isPause' /\ voicePaused'
            /\ LET paused == keydown(Cur, "p")
                   unpaused == keydown(paused, "p")
               IN  /\ paused.stack = stack'
                   /\ unpaused.stack = stack
                   /\ ModalityStack_mode(unpaused) = ModalityStack_mode(Cur)
                   /\ ~unpaused.isPause /\ ~unpaused.voicePaused]_vars

\* a session paused in Table has just been unpaused and is in Table again
C3_Witness ==
    /\ op = "keydown" /\ key = "p"
    /\ stack = << NORMAL, TABLE >>
    /\ ~isPause /\ ~voicePaused

\* this step leaves text as the one utterance of a running engine
Narrates(text) ==
    /\ said' = text
    /\ voiceQueue' = << Utterance(text, speechRate') >>
    /\ ~voicePaused'

\* the focused node is a table
OnTable ==
    /\ FocusIdx(elements, marked) # 0
    /\ elements[FocusIdx(elements, marked)].tag = "table"

\* the rows of the focused table, and the cells of the first of them
FocusRows ==
    descendants(elements, elements[FocusIdx(elements, marked)].uid, {"tr"})

FirstRowCells == descendants(elements, FocusRows[1].uid, {"th", "td"})

\* what a cell is read as
CellText(cell) ==
    Text(IF cell.tag = "th" THEN "Column header: " ELSE "Table cell: ",
         cell.uid, << >>)

\* C4: 't' in Normal on a focused table with a row and a cell in its first
\* row pushes Table, moves the focus to the first cell of the first row and
\* reads it; 't' with no focused node, or with one that is not a table,
\* narrates an error and leaves the stack and the focus as they were
C4_TableEntry ==
    [][KeyIn("t", NORMAL) =>
            /\ (OnTable /\ Len(FocusRows) > 0 /\ Len(FirstRowCells) > 0) =>
                    /\ stack' = Append(stack, TABLE)
                    /\ marked' = {FirstRowCells[1].uid}
                    /\ Narrates(CellText(FirstRowCells[1]))
            /\ ~OnTable =>
                    /\ stack' = stack
                    /\ marked' = marked
                    /\ Narrates(Msg("You are currently not hovering over a table element."))]_vars

\* 't' on a table has just moved the focus to a cell and read it
C4_Witness ==
    /\ op = "keydown" /\ key = "t"
    /\ stack = << NORMAL, TABLE >>
    /\ \E i \in 1..Len(elements) :
            /\ elements[i].tag \in {"th", "td"}
            /\ marked = {elements[i].uid}
            /\ said = CellText(elements[i])
            /\ voiceQueue = << Utterance(said, speechRate) >>

\* C5: 't' on a focused table with no row narrates the 'no rows' message,
\* on one whose first row has no th or td the 'no columns' message; in both
\* cases the stack is as before and the focus stays on the table
C5_TableRefusal ==
    [][(KeyIn("t", NORMAL) /\ OnTable) =>
            /\ Len(FocusRows) = 0 =>
                    /\ stack' = stack
                    /\ marked' = marked
                    /\ Narrates(Msg("This table has no rows."))
            /\ (Len(FocusRows) > 0 /\ Len(FirstRowCells) = 0) =>
                    /\ stack' = stack
                    /\ marked' = marked
                    /\ Narrates(Msg("This table has no columns."))]_vars

\* 't' has just been refused on a focused table whose first row is empty
C5_Witness ==
    /\ op = "keydown" /\ key = "t"
    /\ stack = << NORMAL >>
    /\ OnTable
    /\ Len(FocusRows) > 0
    /\ said = Msg("This table has no columns.")

\* C6: 'q' in Table pops Table, which makes Normal, the mode the table was
\* entered from, current, and the step is one linear advance from the cell
\* focused at exit: the next narratable node after it is focused and narrated
C6_TableExit ==
    [][KeyIn("q", TABLE) =>
            /\ stack' = SubSeq(stack, 1, Len(stack) - 1)
            /\ stack'[Len(stack')] = NORMAL
            /\ OneAdvance
            /\ ~voicePaused']_vars

\* 'q' has just left a table from one of its cells and narrated the
\* paragraph that follows the table
C6_Witness ==
    /\ op = "keydown" /\ key = "q"
    /\ stack = << NORMAL >>
    /\ \E i \in 1..Len(elements) :
            /\ elements[i].tag = "p"
            /\ marked = {elements[i].uid}
            /\ said = elementToString(elements, elements[i])
            /\ voiceQueue = << Utterance(said, speechRate) >>
            /\ \E j \in 1..(i - 1) : elements[j].tag = "table"

\* the help text of a mode: its name and the enumeration of its bindings
HelpText(mode) == Text(ModeName(mode), 0, getHelpString(keybinds, mode))

\* C7: in every mode, Paused with the engine suspended included, the help
\* key leaves the stack and the focus as they were, cancels the utterance in
\* flight and narrates the name of the current mode followed by the
\* enumeration of that mode's bindings
C7_HelpNarratesInEveryMode ==
    [][(op' = "keydown" /\ key' = "F1") =>
            /\ stack' = stack
            /\ marked' = marked
            /\ voiceQueue # << >> => cancelled' = voiceQueue[1].text
            /\ Narrates(HelpText(ModalityStack_mode(Cur)))]_vars

\* the help key has just been pressed in Paused while the engine was
\* suspended: the help text is the one utterance the engine holds, and the
\* engine is still suspended
C7_Witness ==
    /\ op = "keydown" /\ key = "F1"
    /\ ModalityStack_mode(Cur) = PAUSED
    /\ said = HelpText(PAUSED)
    /\ voiceQueue = << Utterance(said, speechRate) >>
    /\ voicePaused

\* keyName has a binding in mode
Bound(mode, keyName) == \E i \in 1..Len(keybinds[mode]) : keybinds[mode][i].key = keyName

\* this step changes nothing of the session and does not suppress the
\* default behaviour of the key
Inert ==
    /\ UNCHANGED << stack, marked, active, elements, speechRate, isPause,
                    voiceQueue, voicePaused >>
    /\ said' = NoText
    /\ ~prevented'
    /\ ~thrown'

\* C8: a key without a binding in the current mode, the help key aside, is
\* inert: the stack, the focused node, the rate, the paused flag and the
\* utterance in flight are unchanged and the default behaviour of the key is
\* not suppressed; ArrowUp, ArrowDown, 't' and 'q' do nothing in Paused
C8_UnboundKeyInert ==
    [][/\ (/\ op' = "keydown"
           /\ key' # "F1"
           /\ ~Bound(ModalityStack_mode(Cur), key')) => Inert
       /\ \A keyName \in {"ArrowUp", "ArrowDown", "t", "q"} :
                KeyIn(keyName, PAUSED) => Inert]_vars

\* ArrowDown has just been pressed in a paused session whose engine holds a
\* suspended utterance, and the focused node is still the one it describes
C8_Witness ==
    /\ op = "keydown" /\ key = "ArrowDown"
    /\ ModalityStack_mode(Cur) = PAUSED
    /\ ~prevented
    /\ voicePaused
    /\ Len(voiceQueue) = 1
    /\ marked = {voiceQueue[1].text.node}

\* C9: after any increaseVoiceRate, decreaseVoiceRate and
\* changeVoiceRate(factor) calls from rate 1.0 the rate is within
\* [0.25, 4.0]; 50 calls of increaseVoiceRate from 1.0 give exactly 4.0; and
\* an utterance submitted by speak carries the rate current at the call
C9_RateWithinBounds ==
    /\ RateMin <= speechRate /\ speechRate <= RateMax
    /\ incCalls = 50 => speechRate = RateMax
    /\ op = "speak" => voiceQueue = << Utterance(said, speechRate) >>

\* changeVoiceRate has just been called with the factor NaN and has left the
\* rate NaN
C9_Witness ==
    /\ op = "changeVoiceRate"
    /\ speechRate = NaN

\* C10: speak() cancels the utterance in flight before it submits the new
\* one: after speak(A) and then speak(B) the engine holds only B, A is never
\* narrated to completion (the utterance that ends is always the one
\* submitted last), and the engine never holds more than one utterance
C10_SpeakCancelsPrior ==
    /\ [](Len(voiceQueue) <= 1)
    /\ [][/\ op' = "speak" =>
                /\ voiceQueue' = << Utterance(said', speechRate) >>
                /\ voiceQueue # << >> => cancelled' = voiceQueue[1].text
          /\ op' = "onend" =>
                /\ voiceQueue = << Utterance(said, voiceQueue[1].rate) >>
                /\ voiceQueue' = << >>]_vars

\* speak(B) has just been called while A was in flight: A was cancelled and
\* B is the only utterance the engine holds
C10_Witness ==
    /\ op = "speak"
    /\ cancelled = Msg("A")
    /\ said = Msg("B")
    /\ voiceQueue = << Utterance(Msg("B"), speechRate) >>

\* C11: pause() twice in a row leaves the proxy and the engine as pause()
\* once does, and the engine is asked to pause only once; resume() when not
\* paused changes nothing; and resume() twice is as resume() once
C11_PauseResumeIdempotent ==
    LET once == pause(Begin)
        resumed == resume(Begin)
    IN  /\ pause(once) = once
        /\ Len(SelectSeq(pause(once).asked, LAMBDA c : c = "pause")) <= 1
        /\ isPause => pause(Begin) = Begin
        /\ ~isPause => resume(Begin) = Begin
        /\ resume(resumed) = resumed
        /\ Len(SelectSeq(resume(resumed).asked, LAMBDA c : c = "resume")) <= 1
        /\ (op = "pause" /\ asked = << >>) => isPause
        /\ (op = "resume" /\ asked = << >>) => ~isPause

\* pause() has just been called on a paused proxy holding a suspended
\* utterance, and has asked nothing of the engine
C11_Witness ==
    /\ op = "pause"
    /\ asked = << >>
    /\ isPause /\ voicePaused
    /\ voiceQueue # << >>

\* what narrating a node comes to: the node focused and the text spoken
Narration(a, n) == [node |-> {n.uid}, text |-> elementToString(a, n)]

\* the narratable nodes of a after position i, in document order
NarratableAfter(a, i) ==
    LET rest == SubSeq(a, i + 1, Len(a))
        toRead == SelectSeq(rest, LAMBDA n : ~n.sr /\ elementToString(a, n) # NoText)
    IN  [k \in 1..Len(toRead) |-> Narration(a, toRead[k])]

\* what at most n ArrowDown keys in a row narrate from s, up to the first
\* that narrates nothing
RECURSIVE ReadOn(_, _)
ReadOn(s, n) ==
    IF n = 0 THEN << >>
    ELSE LET s1 == keydown(s, "ArrowDown")
         IN  IF s1.said = NoText THEN << >>
             ELSE << [node |-> s1.marked, text |-> s1.said] >> \o ReadOn(s1, n - 1)

\* C12: from no focus, repeated advance narrates exactly the narratable
\* nodes outside the injected controls, in document order, each once; and
\* from any focused node exactly those after it
C12_ReadingOrder ==
    /\ ModalityStack_mode(Cur) = NORMAL =>
            ReadOn(Cur, Len(elements) + 1)
                = NarratableAfter(elements, FocusIdx(elements, marked))
    /\ op = "onload" =>
            LET s1 == keydown(Cur, "p")
            IN  (IF s1.said = NoText THEN << >>
                 ELSE << [node |-> s1.marked, text |-> s1.said] >>)
                \o ReadOn(s1, Len(s1.elements) + 1)
                    = NarratableAfter(s1.elements, 0)

\* ArrowDown has just narrated the last narratable node of a page that has
\* a title before the injected controls and content after them
C12_Witness ==
    /\ op = "keydown" /\ key = "ArrowDown"
    /\ ModalityStack_mode(Cur) = NORMAL
    /\ Len(NarratableAfter(elements, 0)) >= 3
    /\ NarratableAfter(elements, 0)[1].node = {3}
    /\ [node |-> marked, text |-> said]
            = NarratableAfter(elements, 0)[Len(NarratableAfter(elements, 0))]

\* C13: an advance from a focused node that no narratable node outside the
\* injected controls follows does nothing: the same node is focused after
\* it and nothing is narrated, also when nodes that are not narratable follow
C13_AdvanceAtEndStays ==
    [][(/\ KeyIn("ArrowDown", NORMAL)
        /\ FocusIdx(elements, marked) # 0
        /\ NextNarratable(elements, FocusIdx(elements, marked)) = 0) =>
            /\ marked' = marked
            /\ said' = NoText
            /\ voiceQueue' = voiceQueue]_vars

\* ArrowDown has just been pressed on the last narratable node of a page:
\* nothing was narrated, and the focus has left that node for the last
\* element of the page, which is not narratable
C13_Witness ==
    /\ op = "keydown" /\ key = "ArrowDown"
    /\ ModalityStack_mode(Cur) = NORMAL
    /\ said = NoText
    /\ marked = {elements[Len(elements)].uid}
    /\ ~Narratable(elements, Len(elements))
    /\ ~elements[Len(elements)].sr
    /\ voiceQueue # << >>
    /\ voiceQueue[1].text.node \notin marked

\* C14: ArrowUp in Normal while the focused node is the first narratable
\* node of the document leaves the focus on that node: it is neither moved
\* nor removed
C14_RetreatAtFirstStays ==
    [][(/\ KeyIn("ArrowUp", NORMAL)
        /\ FocusIdx(elements, marked) # 0
        /\ FocusIdx(elements, marked) = NextNarratable(elements, 0)) =>
            marked' = marked]_vars

\* ArrowUp has just been pressed on the first narratable node: the handler
\* ended in a TypeError, no node is focused any more, and the utterance of
\* the node that was focused is still in the engine
C14_Witness ==
    /\ op = "keydown" /\ key = "ArrowUp"
    /\ ModalityStack_mode(Cur) = NORMAL
    /\ thrown
    /\ marked = {}
    /\ voiceQueue # << >>
    /\ voiceQueue[1].text = elementToString(elements,
                                elements[NextNarratable(elements, 0)])

\* the focused node is a header or data cell
OnCell ==
    /\ FocusIdx(elements, marked) # 0
    /\ elements[FocusIdx(elements, marked)].tag \in {"th", "td"}

\* the ordered cells of the row of the focused cell, and its place among them
RowCells ==
    descendants(elements, elements[FocusIdx(elements, marked)].parent,
                {"th", "td"})

CellIdx == indexOf(RowCells, elements[FocusIdx(elements, marked)].uid)

\* this step moves the focus to cell and reads it, in the same mode
MovesTo(cell) ==
    /\ marked' = {cell.uid}
    /\ stack' = stack
    /\ Narrates(CellText(cell))

\* this step narrates msg and leaves the focus and the mode as they were
Refuses(msg) ==
    /\ marked' = marked
    /\ stack' = stack
    /\ Narrates(Msg(msg))

\* C15: in Table, ArrowRight and ArrowLeft move the focus from cell i of the
\* row's ordered cells to cell i + 1 and i - 1 and read it; at the last and
\* at the first cell they narrate that there are no more cells to the right
\* and to the left, and the focus and the mode are unchanged
C15_TableHorizontal ==
    [][/\ (KeyIn("ArrowRight", TABLE) /\ OnCell) =>
            IF CellIdx < Len(RowCells)
            THEN MovesTo(RowCells[CellIdx + 1])
            ELSE Refuses("There are no more cells to the right.")
       /\ (KeyIn("ArrowLeft", TABLE) /\ OnCell) =>
            IF CellIdx > 1
            THEN MovesTo(RowCells[CellIdx - 1])
            ELSE Refuses("There are no more cells to the left.")]_vars

\* ArrowRight has just moved the focus to the third cell of a row and read it
C15_Witness ==
    /\ op = "keydown" /\ key = "ArrowRight"
    /\ ModalityStack_mode(Cur) = TABLE
    /\ OnCell
    /\ CellIdx = 3
    /\ said = CellText(RowCells[3])
    /\ voiceQueue = << Utterance(said, speechRate) >>

\* the rows of the table of the focused cell, and the place of its row
TableRows ==
    descendants(elements,
                tableEltOf(elements, elements[FocusIdx(elements, marked)].uid),
                {"tr"})

RowIdx == indexOf(TableRows, elements[FocusIdx(elements, marked)].parent)

\* the ordered cells of the row dir rows away from the focused cell's
AdjacentCells(dir) == descendants(elements, TableRows[RowIdx + dir].uid, {"th", "td"})

\* what the keys of ks, pressed one after the other from s, leave behind
RECURSIVE Pressed(_, _)
Pressed(s, ks) ==
    IF ks = << >> THEN s ELSE Pressed(keydown(s, Head(ks)), Tail(ks))

C17_TableCursor ==
    ModalityStack_mode(Cur) = TABLE =>
        /\ Cardinality(marked) = 1
        /\ OnCell
        /\ RowIdx >= 1
        /\ CellIdx >= 1

\* ArrowDown in Table has just moved towards a row without cells
C17_Witness ==
    /\ op = "keydown" /\ key = "ArrowDown"
    /\ ModalityStack_mode(Cur) = TABLE
    /\ thrown
    /\ marked = {}

\* C18: in every reachable state at most one node of the page carries the
\* focus mark __current_sr_elt
C18_AtMostOneFocus == Cardinality(marked) <= 1

\* a keystroke has moved the mark onto a node that follows another
\* narratable node of the page, on which the mark was before
C18_Witness ==
    /\ op = "keydown" /\ key \in {"ArrowDown", "ArrowUp", "ArrowRight", "ArrowLeft"}
    /\ Cardinality(marked) = 1
    /\ cancelled # NoText
    /\ \E i \in 1..(FocusIdx(elements, marked) - 1) : Narratable(elements, i)

\* C19: no keystroke handler ends in a thrown failure, retreat with no
\* narratable node before the focus and a vertical table move into a row
\* without cells included, and after every keystroke the mode is one of
\* the modes of the session and at most one node is focused
C19_NoHandlerThrows ==
    op = "keydown" =>
        /\ ~thrown
        /\ ModalityStack_mode(Cur) \in {NORMAL, PAUSED, TABLE, EDIT}
        /\ Cardinality(marked) <= 1

\* a retreat in Normal or a vertical move in Table has ended in a failure
\* that left no node focused
C19_Witness ==
    /\ op = "keydown"
    /\ thrown
    /\ \/ key = "ArrowUp" /\ ModalityStack_mode(Cur) = NORMAL
       \/ key = "ArrowDown" /\ ModalityStack_mode(Cur) = TABLE
    /\ marked = {}

\* C20: in Normal, once reading has started, the reader proceeds by itself:
\* the end of the utterance of the focused node triggers the narration of
\* the next narratable node in document order, so that without further
\* keystrokes every narratable node is announced
C20_ContinuousReading ==
    [][(/\ op' = "onend"
        /\ ModalityStack_mode(Cur) = NORMAL
        /\ FocusIdx(elements, marked) # 0
        /\ Narratable(elements, FocusIdx(elements, marked))
        /\ voiceQueue[1].text = elementToString(elements,
                                    elements[FocusIdx(elements, marked)])
        /\ NextNarratable(elements, FocusIdx(elements, marked)) # 0) =>
            LET n == elements[NextNarratable(elements, FocusIdx(elements, marked))]
            IN  /\ marked' = {n.uid}
                /\ Narrates(elementToString(elements, n))]_vars

\* the utterance of the focused node has ended in Normal while narratable
\* nodes follow it: the engine is silent and the focus has not moved
C20_Witness ==
    /\ op = "onend"
    /\ ModalityStack_mode(Cur) = NORMAL
    /\ FocusIdx(elements, marked) # 0
    /\ Narratable(elements, FocusIdx(elements, marked))
    /\ NextNarratable(elements, FocusIdx(elements, marked)) # 0
    /\ voiceQueue = << >>
    /\ said = NoText
    /\ ~voicePaused

\* the help entry of a registration
HelpEntry(r) == <<"Press", enunciateKey(r.key), "to", r.description>>

\* C21: for a mode with N registered (mode, key) bindings, getHelpString
\* returns exactly N "Press <key> to <description>" entries, one for every
\* binding of the mode with its enunciated key and the description it was
\* last registered with, and no entry for a binding of another mode
C21_HelpEnumeration ==
    op = "getHelpString" =>
        LET regs == {r \in registered : r.mode = args[1]}
        IN  /\ Len(ret) = Cardinality(regs)
            /\ \A r \in regs : \E i \in 1..Len(ret) : ret[i] = HelpEntry(r)
            /\ \A i \in 1..Len(ret) : \E r \in regs : ret[i] = HelpEntry(r)

\* the help of a mode with two bindings was asked for while the other mode
\* binds one of the keys with another description
C21_Witness ==
    /\ op = "getHelpString"
    /\ Len(ret) = 2
    /\ \E r \in registered, q \in registered :
            /\ r.mode = args[1] /\ q.mode # args[1]
            /\ r.key = q.key /\ r.description # q.description
            /\ \E i \in 1..2 : ret[i] = HelpEntry(r)

\* C22: after any registerKeybind calls, triggerEvent(mode, key) with a
\* binding for (mode, key) suppresses the default behaviour of the key and
\* invokes once the action last registered for that pair, never an action
\* it overwrote or one registered for the key in another mode (and without
\* a binding it does nothing); a registration for one mode leaves the
\* bindings of every other mode as they were
C22_DispatchLastRegistration ==
    /\ [](op = "triggerEvent" =>
            LET regs == {r \in registered : r.mode = args[1] /\ r.key = args[2]}
            IN  IF regs # {}
                THEN /\ prevented
                     /\ \E r \in regs : invoked = << r.callback >>
                ELSE /\ ~prevented
                     /\ invoked = << >>)
    /\ [][op' = "registerKeybind" =>
            \A mode \in ReaderModality \ {args'[1]} :
                keybinds'[mode] = keybinds[mode]]_vars

\* a key bound in both modes, to different actions, was dispatched in one
\* of them, after the other key of the mode had been registered before it
C22_Witness ==
    /\ op = "triggerEvent"
    /\ prevented
    /\ \E r \in registered, q \in registered :
            /\ r.mode = args[1] /\ r.key = args[2]
            /\ q.mode # r.mode /\ q.key = r.key /\ q.callback # r.callback
            /\ invoked = << r.callback >>
            /\ Len(keybinds[r.mode]) = 2
            /\ keybinds[r.mode][2].key = r.key

\* C23: stopNGo switches between pause and resume: called while the synth
\* is not recorded as paused it pauses the engine and leaves isPause true,
\* called while it is recorded as paused it resumes the engine and leaves
\* isPause false, so that two calls in a row undo each other
C23_StopNGoToggles ==
    [][op' = "stopNGo" =>
            IF isPause
            THEN ~voicePaused' /\ ~isPause'
            ELSE voicePaused' /\ isPause']_vars

\* stopNGo has just paused the engine and the synth is recorded as not
\* paused
C23_Witness ==
    /\ op = "stopNGo"
    /\ asked = << "pause" >>
    /\ voicePaused
    /\ ~isPause

\* C24: ArrowDown and ArrowUp in Normal never change the mode stack, also
\* when the node they land on and announce is a table; Table is pushed
\* only by the 't' key
C24_TraversalKeepsMode ==
    [][/\ (KeyIn("ArrowDown", NORMAL) \/ KeyIn("ArrowUp", NORMAL)) =>
                stack' = stack
       /\ stack' = Append(stack, TABLE) => KeyIn("t", NORMAL)]_vars

\* ArrowUp in Normal has just landed on a table and announced it, and the
\* mode is still Normal
C24_Witness ==
    /\ op = "keydown" /\ key = "ArrowUp"
    /\ stack = << NORMAL >>
    /\ OnTable
    /\ said = elementToString(elements, elements[FocusIdx(elements, marked)])
    /\ said # NoText
    /\ ~thrown

\* C25: in every reachable state the node carrying the focus mark, if there
\* is one and it takes input focus, is document.activeElement; so it is for
\* the first cell right after a table entry and after a retreat from the
\* first node of the tree
C25_MarkIsInputFocus ==
    \A i \in 1..Len(elements) :
        (elements[i].uid \in marked /\ elements[i].foc) =>
            active = elements[i].uid

\* 't' has just entered a table whose first cell takes input focus: the
\* cell carries the mark and the input focus is elsewhere
C25_Witness ==
    /\ op = "keydown" /\ key = "t"
    /\ ModalityStack_mode(Cur) = TABLE
    /\ OnCell
    /\ elements[FocusIdx(elements, marked)].foc
    /\ active # elements[FocusIdx(elements, marked)].uid

\* the handlers that call popMode
PopHandlers == {"pausedUnpause", "tableQ", "editEscape"}

\* C26: under the registered keybinds the only mode stacks keystrokes reach
\* are [Normal], [Normal, Paused], [Normal, Table] and [Normal, Table,
\* Paused]: Normal at the bottom, depth at most 3, Paused never on Paused,
\* Edit never on the stack; and no handler calls popMode on a stack of
\* length 1
C26_ReachableStacks ==
    /\ [](stack \in {<< NORMAL >>, << NORMAL, PAUSED >>, << NORMAL, TABLE >>,
                     << NORMAL, TABLE, PAUSED >>})
    /\ [][(\E i \in 1..Len(invoked') : invoked'[i] \in PopHandlers) =>
                Len(stack) > 1]_vars

\* 'p' has just unpaused a session that was paused inside a table
C26_Witness ==
    /\ op = "keydown" /\ key = "p"
    /\ invoked = << "pausedUnpause" >>
    /\ stack = << NORMAL, TABLE >>

\* C27: isPause goes with the Paused mode: it is false whenever the current
\* mode is Normal or Table; a 'p' keystroke that leaves the mode Paused
\* leaves it true, and every other step that leaves the mode Paused started
\* in Paused and keeps the flag, so that it is false in Paused only before
\* the first 'p' is handled; the help key does not change it
C27_PauseFlagCoupled ==
    /\ [](ModalityStack_mode(Cur) \in {NORMAL, TABLE} => ~isPause)
    /\ [][stack'[Len(stack')] = PAUSED =>
            IF op' = "keydown" /\ key' = "p"
            THEN isPause'
            ELSE /\ ModalityStack_mode(Cur) = PAUSED
                 /\ isPause' = isPause]_vars
    /\ [][(op' = "keydown" /\ key' = "F1") => isPause' = isPause]_vars

\* the help key was pressed in Paused mode after a 'p' had paused the
\* session inside a table, and the flag is still true
C27_Witness ==
    /\ op = "keydown" /\ key = "F1"
    /\ stack = << NORMAL, TABLE, PAUSED >>
    /\ isPause
    /\ voicePaused

\* the place of the focus mark of s in document order, 0 without a mark
MarkPos(s) == IF prevIdxOf(s) = Len(s.elements) + 1 THEN 0 ELSE prevIdxOf(s)

\* the calls the engine was asked for by name
Asked(s, name) == SelectSeq(s.asked, LAMBDA c : c = name)

\* C28: normalRead terminates on every page and from every place of the
\* mark: each of its calls to itself starts with the mark strictly further
\* in document order, the last at the latest on the last element, and one
\* invocation makes at most one speak call
C28_AdvanceTerminates ==
    /\ [](\A calls \in {normalReadCalls(BeginRead)} :
            /\ Len(calls) <= Len(elements) + 1
            /\ \A k \in 1..(Len(calls) - 1) :
                    MarkPos(calls[k]) < MarkPos(calls[k + 1])
            /\ MarkPos(calls[Len(calls)]) <= Len(elements))
    /\ [][op' = "normalRead" =>
            /\ normalReadCalls(BeginRead)[1] = BeginRead
            /\ LET calls == normalReadCalls(BeginRead)
               IN  MarkPos(calls[Len(calls)]) <= FocusIdx(elements', marked')
            /\ IF MarkPos(Cur) = Len(elements)
               THEN marked' = marked /\ said' = NoText
               ELSE FocusIdx(elements', marked') > MarkPos(Cur)
            /\ Cardinality(marked') = 1
            /\ Len(SelectSeq(asked', LAMBDA c : c = "speak")) <= 1
            /\ said' # NoText <=>
                    Len(SelectSeq(asked', LAMBDA c : c = "speak")) = 1]_vars

\* normalRead has just passed over at least two elements without a text
\* and spoken once, of an element that is not the last
C28_Witness ==
    /\ op = "normalRead"
    /\ Len(Asked(Cur, "speak")) = 1
    /\ cancelled # NoText
    /\ FocusIdx(elements, marked) < Len(elements)
    /\ LET from == CHOOSE i \in 1..Len(elements) :
                        elements[i].uid = cancelled.node
       IN  /\ FocusIdx(elements, marked) > from + 2
           /\ NextNarratable(elements, from) = FocusIdx(elements, marked)

\* C29: with the focus on a narratable node A that a narratable node B
\* follows in document order, ArrowDown and then ArrowUp in Normal leave
\* the focus on A and A's description as the last narration, whatever
\* nodes without a text and injected controls lie between A and B
C29_AdvanceRetreatRoundTrip ==
    (/\ ModalityStack_mode(Cur) = NORMAL
     /\ FocusIdx(elements, marked) # 0
     /\ Narratable(elements, FocusIdx(elements, marked))
     /\ NextNarratable(elements, FocusIdx(elements, marked)) # 0) =>
        \A there \in {keydown(Cur, "ArrowDown")} :
            \A back \in {keydown(there, "ArrowUp")} :
                /\ there.marked =
                        {elements[NextNarratable(elements,
                                      FocusIdx(elements, marked))].uid}
                /\ back.marked = marked
                /\ back.said = elementToString(elements,
                                    elements[FocusIdx(elements, marked)])
                /\ back.voiceQueue = << Utterance(back.said, speechRate) >>
                /\ back.stack = stack
                /\ ~back.thrown

\* ArrowUp has just taken the focus back from B, whose utterance it cut
\* short, to A, with at least one node between them
C29_Witness ==
    /\ op = "keydown" /\ key = "ArrowUp"
    /\ ModalityStack_mode(Cur) = NORMAL
    /\ FocusIdx(elements, marked) # 0
    /\ Narratable(elements, FocusIdx(elements, marked))
    /\ NextNarratable(elements, FocusIdx(elements, marked)) >
            FocusIdx(elements, marked) + 1
    /\ cancelled = elementToString(elements,
                        elements[NextNarratable(elements,
                                     FocusIdx(elements, marked))])
    /\ said = elementToString(elements, elements[FocusIdx(elements, marked)])

====
